---- MODULE Spec2Model ----
(***************************************************************************)
(* The low rank Trotter steps of openfermioncirq/trotter/algorithms/       *)
(* low_rank.py: the two factories, the construction of a step object, the  *)
(* generators trotter_step and finish of the asymmetric and the controlled *)
(* asymmetric step, step_qubit_permutation, and a consumer that pulls the  *)
(* items a generator yields and expands the inner sequences among them.    *)
(*                                                                         *)
(* A harness builds both step objects from one Hamiltonian and drives each *)
(* of them, the controlled one first, through some Trotter steps and       *)
(* finish, on the same qubits, time and control qubit.                     *)
(*                                                                         *)
(* chosen_angle_to_half_turns of openfermioncirq/gates/angle.py is         *)
(* modelled beside it, with a specification of its own (SpecAngle).        *)
(***************************************************************************)
EXTENDS Integers, Sequences, FiniteSets, TLC

\* Bounds of the model.
MaxN == 3          \* qubits (orbitals) of a Hamiltonian: 1..MaxN
MaxJ == 2          \* terms of a decomposition: 0..MaxJ
MaxSteps == 2      \* Trotter steps of a run (n_steps): 0..MaxSteps
MaxPending == 1    \* inner sequences the consumer may leave unexpanded while pulling on
MaxAngle == 1      \* values of an angle argument: -MaxAngle..MaxAngle

\* control_qubit's default (low_rank.py:146, 234); qubits are integers >= 0.
None == -1

Variants == {"asym", "ctrl"}

VARIABLES
    hamiltonian,       \* the Hamiltonian both factories are given
    qubits0,           \* the caller's qubit sequence
    time,              \* the time of one Trotter step
    control0,          \* the caller's control qubit, or None
    n_steps,           \* the number of Trotter steps finish is told
    omit_final_swaps,  \* the flag finish is told
    variant,           \* the step object the harness is driving
    pc,                \* the harness's position
    trotter,           \* variant -> what the factory gave: NoStep, Raised or a step object
    qubits,            \* the driver's current qubit ordering
    control,           \* the driver's current control qubit
    steps_done,        \* Trotter steps completed by the driver
    gen,               \* the frame of the generator being consumed
    tree,              \* the items pulled from it so far
    register,          \* the qubit register the emitted swaps act on
    log,               \* variant -> the operations of each completed step of its run
    angle_call         \* a call of chosen_angle_to_half_turns and its outcome

vars == <<hamiltonian, qubits0, time, control0, n_steps, omit_final_swaps,
          variant, pc, trotter, qubits, control, steps_done, gen, tree,
          register, log, angle_call>>

inputs == <<hamiltonian, qubits0, time, control0>>

run == <<n_steps, omit_final_swaps>>

-----------------------------------------------------------------------------
\* Sequences and complex numbers.

Reverse(s) == [i \in 1..Len(s) |-> s[Len(s) + 1 - i]]

Range(s) == {s[i] : i \in 1..Len(s)}

RECURSIVE Concat(_)
Concat(ss) == IF ss = <<>> THEN <<>> ELSE Head(ss) \o Concat(Tail(ss))

\* A complex number is <<re, im>>.
CAdd(a, b) == <<a[1] + b[1], a[2] + b[2]>>
CScale(k, a) == <<k * a[1], k * a[2]>>
CReal(a) == a[1]

-----------------------------------------------------------------------------
\* Hamiltonians and the two external providers.

\* An InteractionOperator has a constant, a one-body tensor and a two-body
\* tensor; the two-body tensor is represented by what the decomposition
\* provider returns for it (rank J, and the seed of its numbers).
InteractionOperators ==
    [type : {"InteractionOperator"}, has_tensors : {TRUE}, decomposes : {TRUE},
     n : 1..MaxN, rank : 0..MaxJ, constant : {3}, seed : {1}]

\* Other inputs a factory can be handed: an InteractionOperator whose
\* two-body tensor the provider rejects, and a Hamiltonian of the other type,
\* which has no two_body_tensor and no one_body_tensor.
OtherHamiltonians ==
    { [type |-> "InteractionOperator", has_tensors |-> TRUE, decomposes |-> FALSE,
       n |-> 2, rank |-> 1, constant |-> 3, seed |-> 1],
      [type |-> "DiagonalCoulombHamiltonian", has_tensors |-> FALSE, decomposes |-> TRUE,
       n |-> 2, rank |-> 1, constant |-> 3, seed |-> 1] }

Hamiltonians == InteractionOperators \cup OtherHamiltonians

one_body_tensor(h) ==
    [p \in 1..h.n |-> [q \in 1..h.n |-> <<h.seed * (4 * p + q), p - q>>]]

\* low_rank_two_body_decomposition: eigenvalues, one-body squares (named by
\* their index) and the one-body correction.
low_rank_two_body_decomposition(h) ==
    [eigenvalues |-> [j \in 1..h.rank |-> h.seed + j],
     one_body_squares |-> [j \in 1..h.rank |-> j],
     one_body_correction |-> [p \in 1..h.n |-> [q \in 1..h.n |-> <<p, 0>>]]]

\* prepare_one_body_squared_evolution: the density-density matrix of a
\* one-body square and its basis change matrix (named by the index).
prepare_one_body_squared_evolution(h, square) ==
    [density_density_matrix |->
        [p \in 1..h.n |-> [q \in 1..h.n |-> <<7 * square + 3 * p + q, p + q>>]],
     basis_change_matrix |-> square]

\* The identity matrix among the named basis change matrices.
Identity == 0

-----------------------------------------------------------------------------
\* LowRankTrotterStep.__init__ and the factories.

NoStep ==
    [result |-> "unbuilt", eigenvalues |-> <<>>, one_body_coefficients |-> <<>>,
     constant |-> 0, scaled_density_density_matrices |-> <<>>,
     basis_change_matrices |-> <<>>]

Raised == [NoStep EXCEPT !.result = "raised"]

NotApplicable == [NoStep EXCEPT !.result = "None"]

\* The constructor reads hamiltonian.two_body_tensor, one_body_tensor and
\* constant with no check of the type: an object without them raises
\* (AttributeError), and a failure of the decomposition propagates.
LowRankTrotterStep(h) ==
    IF ~h.has_tensors \/ ~h.decomposes THEN Raised
    ELSE
    LET d == low_rank_two_body_decomposition(h)
        prepared == [j \in 1..Len(d.eigenvalues) |->
                        prepare_one_body_squared_evolution(h, d.one_body_squares[j])]
    IN  [result |-> "step",
         eigenvalues |-> d.eigenvalues,
         one_body_coefficients |->
            [p \in 1..h.n |-> [q \in 1..h.n |->
                CAdd(one_body_tensor(h)[p][q], d.one_body_correction[p][q])]],
         constant |-> h.constant,
         scaled_density_density_matrices |->
            [j \in 1..Len(d.eigenvalues) |->
                [p \in 1..h.n |-> [q \in 1..h.n |->
                    CReal(CScale(d.eigenvalues[j],
                                 prepared[j].density_density_matrix[p][q]))]]],
         basis_change_matrices |->
            [j \in 1..Len(d.eigenvalues) |-> prepared[j].basis_change_matrix]]

\* Mutant: the factory checks the type and answers None.
asymmetric_checked(h) ==
    IF h.type = "InteractionOperator" THEN LowRankTrotterStep(h) ELSE NotApplicable

asymmetric(h) == LowRankTrotterStep(h)

controlled_asymmetric(h) == LowRankTrotterStep(h)

-----------------------------------------------------------------------------
\* Operations and the items of an operation tree.

NoSrc == [kind |-> "none", j |-> 0, p |-> 0, q |-> 0]

\* A gate applied to qubits: its angle, the unit the angle is given in, the
\* coefficient the angle was read from, and for a basis transformation the
\* matrix <<left, right>> standing for left . right^dagger (0: the identity).
Op(gate, unit, angle, on, src, matrix) ==
    [gate |-> gate, unit |-> unit, angle |-> angle, on |-> on, src |-> src,
     matrix |-> matrix]

Gate(gate, unit, angle, on, src) == Op(gate, unit, angle, on, src, <<0, 0>>)

\* An item a generator yields. A generator expression is yielded unexpanded:
\* its operations exist once the consumer iterates it.
Item(kind, site, fermionic, ops, expanded) ==
    [kind |-> kind, site |-> site, fermionic |-> fermionic, ops |-> ops,
     expanded |-> expanded, late |-> FALSE]

\* bogoliubov_transform(qubits, matrix), consumed opaquely.
bogoliubov_transform(qs, left, right) ==
    Item("bogoliubov", "", FALSE,
         <<Op("bogoliubov", "", 0, qs, NoSrc, <<left, right>>)>>, TRUE)

\* The functions the steps hand to swap_network.
NoOperation == [fn |-> "none", j |-> 0, time |-> 0, control_qubit |-> None]

\* lambda p, q, a, b: XXYYGate(duration=one_body_coefficients[p, q].real * time).on(a, b)
AsymOneBodyOperation(step, fn, p, q, a, b) ==
    <<Gate("XXYY", "duration", CReal(step.one_body_coefficients[p][q]) * fn.time,
           <<a, b>>, [kind |-> "one_body", j |-> 0, p |-> p, q |-> q])>>

\* lambda p, q, a, b: cirq.Rot11Gate(rads=-2 * two_body_coefficients[p, q] * time).on(a, b)
AsymTwoBodyOperation(step, fn, p, q, a, b) ==
    <<Gate("Rot11", "rads",
           -2 * step.scaled_density_density_matrices[fn.j][p][q] * fn.time,
           <<a, b>>, [kind |-> "two_body", j |-> fn.j, p |-> p, q |-> q])>>

\* lambda p, q, a, b: ControlledXXYYGate(duration=...).on(control_qubit, a, b)
CtrlOneBodyOperation(step, fn, p, q, a, b) ==
    <<Gate("ControlledXXYY", "duration",
           CReal(step.one_body_coefficients[p][q]) * fn.time,
           <<fn.control_qubit, a, b>>, [kind |-> "one_body", j |-> 0, p |-> p, q |-> q])>>

\* Mutant: the factor 2 of the off-diagonal two-body terms is lost.
CtrlTwoBodyOperationHalved(step, fn, p, q, a, b) ==
    <<Gate("Rot111", "rads",
           -step.scaled_density_density_matrices[fn.j][p][q] * fn.time,
           <<fn.control_qubit, a, b>>, [kind |-> "two_body", j |-> fn.j, p |-> p, q |-> q])>>

\* lambda p, q, a, b: Rot111Gate(rads=-2 * two_body_coefficients[p, q] * time).on(control_qubit, a, b)
CtrlTwoBodyOperation(step, fn, p, q, a, b) ==
    <<Gate("Rot111", "rads",
           -2 * step.scaled_density_density_matrices[fn.j][p][q] * fn.time,
           <<fn.control_qubit, a, b>>, [kind |-> "two_body", j |-> fn.j, p |-> p, q |-> q])>>

Operation(step, fn, p, q, a, b) ==
    CASE fn.fn = "asym_one_body" -> AsymOneBodyOperation(step, fn, p, q, a, b)
      [] fn.fn = "asym_two_body" -> AsymTwoBodyOperation(step, fn, p, q, a, b)
      [] fn.fn = "ctrl_one_body" -> CtrlOneBodyOperation(step, fn, p, q, a, b)
      [] fn.fn = "ctrl_two_body" -> CtrlTwoBodyOperation(step, fn, p, q, a, b)
      [] OTHER -> <<>>

\* swap_network(qubits, operation, fermionic): layers of an odd-even
\* transposition network. Each adjacent pair visited gets operation(p, q, a, b),
\* p and q being the positions in the given ordering of the modes now held
\* by a and b, then a swap gate that exchanges the two.
RECURSIVE SwapLayers(_, _, _, _, _, _, _)
SwapLayers(step, qs, fn, fermionic, layer, i, acc) ==
    IF layer > Len(qs) THEN acc.ops
    ELSE IF i + 1 > Len(qs)
         THEN SwapLayers(step, qs, fn, fermionic, layer + 1, (layer % 2) + 1, acc)
    ELSE LET p == acc.order[i]
             q == acc.order[i + 1]
             swap == Gate(IF fermionic THEN "FSWAP" ELSE "SWAP", "", 0,
                          <<qs[i], qs[i + 1]>>, NoSrc)
         IN  SwapLayers(step, qs, fn, fermionic, layer, i + 2,
                 [order |-> [acc.order EXCEPT ![i] = q, ![i + 1] = p],
                  ops |-> acc.ops \o Operation(step, fn, p, q, qs[i], qs[i + 1])
                                  \o <<swap>>])

swap_network(step, qs, fn, fermionic) ==
    Item("swap_network", "", fermionic,
         SwapLayers(step, qs, fn, fermionic, 1, 1,
                    [order |-> [i \in 1..Len(qs) |-> i], ops |-> <<>>]),
         TRUE)

\* What the swap gates among ops do to a register (qubit -> mode held).
RECURSIVE ApplySwaps(_, _)
ApplySwaps(mapping, ops) ==
    IF ops = <<>> THEN mapping
    ELSE LET o == Head(ops)
             next == IF o.gate \in {"SWAP", "FSWAP"}
                     THEN [mapping EXCEPT ![o.on[1]] = mapping[o.on[2]],
                                          ![o.on[2]] = mapping[o.on[1]]]
                     ELSE mapping
         IN  ApplySwaps(next, Tail(ops))

-----------------------------------------------------------------------------
\* Generator frames. Calling trotter_step or finish runs none of its code:
\* it makes a frame, which each pull of the consumer resumes up to the next
\* yield. The frame holds the locals; "at" names the yield it is suspended at.

NoFrame ==
    [fn |-> "none", at |-> "done", qubits |-> <<>>, time |-> 0,
     control_qubit |-> None, n_steps |-> 0, omit_final_swaps |-> FALSE,
     n_qubits |-> 0, p |-> 0, j |-> 0, two_body_coefficients |-> 0,
     basis_change_matrix |-> Identity, prior_basis_matrix |-> Identity]

TrotterStepFrame(qs, t, c) ==
    [NoFrame EXCEPT !.fn = "trotter_step", !.at = "start", !.qubits = qs,
                    !.time = t, !.control_qubit = c]

FinishFrame(qs, n, c, omit) ==
    [NoFrame EXCEPT !.fn = "finish", !.at = "start", !.qubits = qs,
                    !.n_steps = n, !.control_qubit = c, !.omit_final_swaps = omit]

self == trotter[variant]

Pending(t) == {i \in 1..Len(t) : ~t[i].expanded}

\* The register after the swap gates of a pulled item have acted.
Acted(reg, item) ==
    IF item.kind = "swap_network"
    THEN [mapping |-> ApplySwaps(reg.mapping, item.ops),
          passes |-> reg.passes + 1,
          fermionic |-> reg.fermionic + (IF item.fermionic THEN 1 ELSE 0)]
    ELSE reg

\* One pull of the consumer: the generator runs to its next yield.
Yield(item, frame) ==
    /\ tree' = Append(tree, item)
    /\ gen' = frame
    /\ register' = Acted(register, item)
    /\ UNCHANGED <<angle_call, inputs, run, variant, pc, trotter, qubits, control, steps_done, log>>

Resumable(v, fn) ==
    /\ pc = "consume"
    /\ variant = v
    /\ gen.fn = fn
    /\ Cardinality(Pending(tree)) <= MaxPending

\* Mutant: the reversal after the two-body swap network is forgotten.
QubitsOnResumeOneBodyOnly(g) ==
    IF g.at = "one_body_swap" THEN Reverse(g.qubits) ELSE g.qubits

\* qubits = qubits[::-1] follows the yield of each swap network.
QubitsOnResume(g) ==
    IF g.at \in {"one_body_swap", "two_body_swap"} THEN Reverse(g.qubits) ELSE g.qubits

\* The for loop over the terms is reached (again): the term it turns to and
\* the prior basis matrix it finds.
AsymOneBodyDone(g) ==
    \/ g.at = "one_body_diag" /\ g.p = g.n_qubits
    \/ g.at = "one_body_swap" /\ g.n_qubits = 0

AsymTwoBodyDone(g) ==
    \/ g.at = "two_body_diag" /\ g.p = g.n_qubits
    \/ g.at = "two_body_swap" /\ g.n_qubits = 0

AsymAtLoop(g) == AsymOneBodyDone(g) \/ AsymTwoBodyDone(g)

CtrlAtLoop(g) == g.at \in {"one_body_diag", "two_body_diag"}

NextTerm(g) == IF g.at \in {"one_body_swap", "one_body_diag"} THEN 1 ELSE g.j + 1

\* Mutant: the loop stops one term short.
AsymTermLeftButLast(step, g) == NextTerm(g) < Len(step.eigenvalues)

\* for j in range(len(self.eigenvalues)): is there a term to turn to?
AsymTermLeft(step, g) == NextTerm(g) <= Len(step.eigenvalues)

CtrlTermLeft(step, g) == NextTerm(g) <= Len(step.eigenvalues)

PriorOnLoop(g) ==
    IF g.at \in {"one_body_swap", "one_body_diag"} THEN Identity
    ELSE g.basis_change_matrix

EnterTerm(g) ==
    [g EXCEPT !.at = "basis_change",
              !.qubits = QubitsOnResume(g),
              !.j = NextTerm(g),
              !.two_body_coefficients = NextTerm(g),
              !.basis_change_matrix = self.basis_change_matrices[NextTerm(g)],
              !.prior_basis_matrix = PriorOnLoop(g)]

LeaveLoop(g) ==
    [g EXCEPT !.at = "undo",
              !.qubits = QubitsOnResume(g),
              !.prior_basis_matrix = PriorOnLoop(g)]

-----------------------------------------------------------------------------
\* AsymmetricLowRankTrotterStep.trotter_step

AsymYieldOneBodySwap ==
    /\ Resumable("asym", "trotter_step")
    /\ gen.at = "start"
    /\ Yield(swap_network(self, gen.qubits,
                          [NoOperation EXCEPT !.fn = "asym_one_body", !.time = gen.time],
                          TRUE),
             [gen EXCEPT !.at = "one_body_swap", !.n_qubits = Len(gen.qubits)])

AsymOneBodyRotZ(g, qs, p) ==
    Item("op", "", FALSE,
         <<Gate("RotZ", "rads", -CReal(self.one_body_coefficients[p][p]) * g.time,
                <<qs[p]>>, [kind |-> "one_body", j |-> 0, p |-> p, q |-> p])>>,
         TRUE)

AsymYieldOneBodyDiag ==
    /\ Resumable("asym", "trotter_step")
    /\ \/ gen.at = "one_body_swap" /\ gen.n_qubits > 0
       \/ gen.at = "one_body_diag" /\ gen.p < gen.n_qubits
    /\ LET p == IF gen.at = "one_body_swap" THEN 1 ELSE gen.p + 1
           qs == QubitsOnResume(gen)
       IN  Yield(AsymOneBodyRotZ(gen, qs, p),
                 [gen EXCEPT !.at = "one_body_diag", !.qubits = qs, !.p = p])

AsymYieldBasisChange ==
    /\ Resumable("asym", "trotter_step")
    /\ AsymAtLoop(gen)
    /\ AsymTermLeft(self, gen)
    /\ LET g == EnterTerm(gen)
       IN  Yield(bogoliubov_transform(g.qubits, g.prior_basis_matrix,
                                      g.basis_change_matrix), g)

AsymYieldTwoBodySwap ==
    /\ Resumable("asym", "trotter_step")
    /\ gen.at = "basis_change"
    /\ Yield(swap_network(self, gen.qubits,
                          [NoOperation EXCEPT !.fn = "asym_two_body",
                                              !.j = gen.two_body_coefficients,
                                              !.time = gen.time],
                          FALSE),
             [gen EXCEPT !.at = "two_body_swap"])

AsymTwoBodyRotZ(g, qs, p) ==
    Item("op", "", FALSE,
         <<Gate("RotZ", "rads",
                -self.scaled_density_density_matrices[g.two_body_coefficients][p][p]
                    * g.time,
                <<qs[p]>>,
                [kind |-> "two_body", j |-> g.two_body_coefficients, p |-> p, q |-> p])>>,
         TRUE)

AsymYieldTwoBodyDiag ==
    /\ Resumable("asym", "trotter_step")
    /\ \/ gen.at = "two_body_swap" /\ gen.n_qubits > 0
       \/ gen.at = "two_body_diag" /\ gen.p < gen.n_qubits
    /\ LET p == IF gen.at = "two_body_swap" THEN 1 ELSE gen.p + 1
           qs == QubitsOnResume(gen)
       IN  Yield(AsymTwoBodyRotZ(gen, qs, p),
                 [gen EXCEPT !.at = "two_body_diag", !.qubits = qs, !.p = p])

AsymYieldUndo ==
    /\ Resumable("asym", "trotter_step")
    /\ AsymAtLoop(gen)
    /\ ~AsymTermLeft(self, gen)
    /\ LET g == LeaveLoop(gen)
       IN  Yield(bogoliubov_transform(g.qubits, g.prior_basis_matrix, Identity), g)

\* The generator returns: the pull raises StopIteration and yields nothing.
Stop ==
    /\ gen' = [gen EXCEPT !.at = "done"]
    /\ UNCHANGED <<angle_call, inputs, run, variant, pc, trotter, qubits, control, steps_done,
                   tree, register, log>>

AsymStop ==
    /\ Resumable("asym", "trotter_step")
    /\ gen.at = "undo"
    /\ Stop

-----------------------------------------------------------------------------
\* ControlledAsymmetricLowRankTrotterStep.trotter_step

CtrlYieldOneBodySwap ==
    /\ Resumable("ctrl", "trotter_step")
    /\ gen.at = "start"
    /\ Yield(swap_network(self, gen.qubits,
                          [NoOperation EXCEPT !.fn = "ctrl_one_body", !.time = gen.time,
                                              !.control_qubit = gen.control_qubit],
                          TRUE),
             [gen EXCEPT !.at = "one_body_swap", !.n_qubits = Len(gen.qubits)])

\* The generator expression of the diagonal one-body terms is yielded as it
\* is; range(n_qubits) is all that is evaluated.
CtrlYieldOneBodyDiag ==
    /\ Resumable("ctrl", "trotter_step")
    /\ gen.at = "one_body_swap"
    /\ Yield(Item("genexp", "one_body", FALSE, <<>>, FALSE),
             [gen EXCEPT !.at = "one_body_diag", !.qubits = QubitsOnResume(gen)])

CtrlYieldBasisChange ==
    /\ Resumable("ctrl", "trotter_step")
    /\ CtrlAtLoop(gen)
    /\ CtrlTermLeft(self, gen)
    /\ LET g == EnterTerm(gen)
       IN  Yield(bogoliubov_transform(g.qubits, g.prior_basis_matrix,
                                      g.basis_change_matrix), g)

CtrlYieldTwoBodySwap ==
    /\ Resumable("ctrl", "trotter_step")
    /\ gen.at = "basis_change"
    /\ Yield(swap_network(self, gen.qubits,
                          [NoOperation EXCEPT !.fn = "ctrl_two_body",
                                              !.j = gen.two_body_coefficients,
                                              !.time = gen.time,
                                              !.control_qubit = gen.control_qubit],
                          FALSE),
             [gen EXCEPT !.at = "two_body_swap"])

CtrlYieldTwoBodyDiag ==
    /\ Resumable("ctrl", "trotter_step")
    /\ gen.at = "two_body_swap"
    /\ Yield(Item("genexp", "two_body", FALSE, <<>>, FALSE),
             [gen EXCEPT !.at = "two_body_diag", !.qubits = QubitsOnResume(gen)])

CtrlYieldUndo ==
    /\ Resumable("ctrl", "trotter_step")
    /\ CtrlAtLoop(gen)
    /\ ~CtrlTermLeft(self, gen)
    /\ LET g == LeaveLoop(gen)
       IN  Yield(bogoliubov_transform(g.qubits, g.prior_basis_matrix, Identity), g)

\* Mutant: the phase forgets the time.
CtrlPhaseWithoutTime(g) ==
    Item("op", "", FALSE,
         <<Gate("RotZ", "rads", -self.constant, <<g.control_qubit>>,
                [kind |-> "constant", j |-> 0, p |-> 0, q |-> 0])>>,
         TRUE)

\* cirq.RotZGate(rads=-self.constant * time).on(control_qubit)
CtrlPhase(g) ==
    Item("op", "", FALSE,
         <<Gate("RotZ", "rads", -self.constant * g.time, <<g.control_qubit>>,
                [kind |-> "constant", j |-> 0, p |-> 0, q |-> 0])>>,
         TRUE)

CtrlYieldPhase ==
    /\ Resumable("ctrl", "trotter_step")
    /\ gen.at = "undo"
    /\ Yield(CtrlPhase(gen), [gen EXCEPT !.at = "phase"])

CtrlStop ==
    /\ Resumable("ctrl", "trotter_step")
    /\ gen.at = "phase"
    /\ Stop

\* The consumer iterates a generator expression it was given. The body reads
\* the frame's qubits and two_body_coefficients as they are bound now.
CtrlOneBodyDiag(g) ==
    [k \in 1..g.n_qubits |->
        Gate("Rot11", "rads", -CReal(self.one_body_coefficients[k][k]) * g.time,
             <<g.control_qubit, g.qubits[k]>>,
             [kind |-> "one_body", j |-> 0, p |-> k, q |-> k])]

CtrlTwoBodyDiag(g) ==
    [k \in 1..g.n_qubits |->
        Gate("Rot11", "rads",
             -self.scaled_density_density_matrices[g.two_body_coefficients][k][k]
                 * g.time,
             <<g.control_qubit, g.qubits[k]>>,
             [kind |-> "two_body", j |-> g.two_body_coefficients, p |-> k, q |-> k])]

Expanded(i, ops) ==
    /\ tree' = [tree EXCEPT ![i] = [@ EXCEPT !.ops = ops, !.expanded = TRUE,
                                             !.late = (i < Len(tree))]]
    /\ UNCHANGED <<angle_call, inputs, run, variant, pc, trotter, qubits, control, steps_done,
                   gen, register, log>>

ExpandOneBodyDiag ==
    /\ pc = "consume"
    /\ \E i \in Pending(tree) :
        /\ tree[i].site = "one_body"
        /\ Expanded(i, CtrlOneBodyDiag(gen))

ExpandTwoBodyDiag ==
    /\ pc = "consume"
    /\ \E i \in Pending(tree) :
        /\ tree[i].site = "two_body"
        /\ Expanded(i, CtrlTwoBodyDiag(gen))

-----------------------------------------------------------------------------
\* step_qubit_permutation and finish of the two steps.

AsymStepQubitPermutation(step, qs, c) ==
    IF Len(step.eigenvalues) % 2 = 1 THEN <<qs, None>> ELSE <<Reverse(qs), None>>

\* Mutant: the parity test is inverted.
CtrlStepQubitPermutationInverted(step, qs, c) ==
    IF Len(step.eigenvalues) % 2 = 0 THEN <<qs, c>> ELSE <<Reverse(qs), c>>

CtrlStepQubitPermutation(step, qs, c) ==
    IF Len(step.eigenvalues) % 2 = 1 THEN <<qs, c>> ELSE <<Reverse(qs), c>>

\* Mutant: omit_final_swaps is ignored.
AsymFinishSwapsModesAlways(g) == g.n_steps % 2 = 1

\* if not omit_final_swaps: if n_steps & 1:
AsymFinishSwapsModes(g) == ~g.omit_final_swaps /\ g.n_steps % 2 = 1

\* Mutant: the second pass is emitted when J is even.
AsymFinishSwapsQubitsWhenEven(step) == Len(step.eigenvalues) % 2 = 0

\* if len(self.eigenvalues) & 1:
AsymFinishSwapsQubits(step) == Len(step.eigenvalues) % 2 = 1

CtrlFinishSwapsModes(g) == ~g.omit_final_swaps /\ g.n_steps % 2 = 1

\* Mutant: the second pass is emitted when J is even.
CtrlFinishSwapsQubitsWhenEven(step) == Len(step.eigenvalues) % 2 = 0

CtrlFinishSwapsQubits(step) == Len(step.eigenvalues) % 2 = 1

AsymFinishYieldFermionicSwap ==
    /\ Resumable("asym", "finish")
    /\ gen.at = "start"
    /\ AsymFinishSwapsModes(gen)
    /\ Yield(swap_network(self, gen.qubits, NoOperation, TRUE),
             [gen EXCEPT !.at = "fermionic_swap"])

AsymFinishYieldSwap ==
    /\ Resumable("asym", "finish")
    /\ gen.at = "fermionic_swap"
    /\ AsymFinishSwapsQubits(self)
    /\ Yield(swap_network(self, gen.qubits, NoOperation, FALSE),
             [gen EXCEPT !.at = "swap"])

AsymFinishStop ==
    /\ Resumable("asym", "finish")
    /\ \/ gen.at = "start" /\ ~AsymFinishSwapsModes(gen)
       \/ gen.at = "fermionic_swap" /\ ~AsymFinishSwapsQubits(self)
       \/ gen.at = "swap"
    /\ Stop

CtrlFinishYieldFermionicSwap ==
    /\ Resumable("ctrl", "finish")
    /\ gen.at = "start"
    /\ CtrlFinishSwapsModes(gen)
    /\ Yield(swap_network(self, gen.qubits, NoOperation, TRUE),
             [gen EXCEPT !.at = "fermionic_swap"])

CtrlFinishYieldSwap ==
    /\ Resumable("ctrl", "finish")
    /\ gen.at = "fermionic_swap"
    /\ CtrlFinishSwapsQubits(self)
    /\ Yield(swap_network(self, gen.qubits, NoOperation, FALSE),
             [gen EXCEPT !.at = "swap"])

CtrlFinishStop ==
    /\ Resumable("ctrl", "finish")
    /\ \/ gen.at = "start" /\ ~CtrlFinishSwapsModes(gen)
       \/ gen.at = "fermionic_swap" /\ ~CtrlFinishSwapsQubits(self)
       \/ gen.at = "swap"
    /\ Stop

-----------------------------------------------------------------------------
\* gates/angle.py: chosen_angle_to_half_turns. A keyword argument is either
\* not given (None) or given with a value; what is returned is the number
\* num / den * pi^pi, kept symbolic so that a division stays a division.

NotGiven == [given |-> FALSE, value |-> 0]

Given(v) == [given |-> TRUE, value |-> v]

Number(num, den, pi) == [num |-> num, den |-> den, pi |-> pi]

ValueError == [raised |-> TRUE, value |-> Number(0, 1, 0)]

Returned(x) == [raised |-> FALSE, value |-> x]

DefaultHalfTurns == 1

\* len([1 for e in [...] if e]): an argument of 0 would not be counted.
GivenCountTruthy(args) == Len(SelectSeq(args, LAMBDA e : e.given /\ e.value # 0))

\* len([1 for e in [...] if e is not None])
GivenCount(args) == Len(SelectSeq(args, LAMBDA e : e.given))

\* cirq's function of the same name, which takes no duration.
cirq_chosen_angle_to_half_turns(half_turns, rads, degs, default) ==
    IF GivenCount(<<half_turns, rads, degs>>) > 1 THEN ValueError
    ELSE IF rads.given THEN Returned(Number(rads.value, 1, -1))
    ELSE IF degs.given THEN Returned(Number(degs.value, 180, 0))
    ELSE IF half_turns.given THEN Returned(Number(half_turns.value, 1, 0))
    ELSE Returned(Number(default, 1, 0))

chosen_angle_to_half_turns(half_turns, rads, degs, duration, default) ==
    LET bound == IF default.given THEN default.value ELSE DefaultHalfTurns
    IN  IF GivenCount(<<half_turns, rads, degs, duration>>) > 1 THEN ValueError
        ELSE IF duration.given THEN Returned(Number(2 * duration.value, 1, -1))
        ELSE cirq_chosen_angle_to_half_turns(half_turns, rads, degs, bound)

NotCalled == [raised |-> FALSE, value |-> Number(0, 0, 0)]

NoCall ==
    [half_turns |-> NotGiven, rads |-> NotGiven, degs |-> NotGiven,
     duration |-> NotGiven, default |-> NotGiven, called |-> FALSE,
     result |-> NotCalled]

Arguments == {NotGiven} \cup {Given(v) : v \in -MaxAngle..MaxAngle}

CallChosenAngleToHalfTurns ==
    /\ ~angle_call.called
    /\ angle_call' = [angle_call EXCEPT
                    !.called = TRUE,
                    !.result = chosen_angle_to_half_turns(
                                   angle_call.half_turns, angle_call.rads,
                                   angle_call.degs, angle_call.duration,
                                   angle_call.default)]
    /\ UNCHANGED <<inputs, run, variant, pc, trotter, qubits, control, steps_done,
                   gen, tree, register, log>>

-----------------------------------------------------------------------------
\* The harness: for each step object in turn, the factory, then n_steps times
\* trotter_step consumed to its end and step_qubit_permutation, then finish.

Flatten(t) == Concat([i \in 1..Len(t) |-> t[i].ops])

\* Some inner sequence was expanded only after a later item had been pulled.
Late(t) == \E i \in 1..Len(t) : t[i].late

FreshRegister ==
    [mapping |-> [x \in Range(qubits0) |-> x], passes |-> 0, fermionic |-> 0]

\* The harness keeps the operations of the steps of a run for as long as the
\* run was consumed in tree order, and nothing of a run that was not.
NoLog == [in_order |-> TRUE, steps |-> <<>>]

Logged(l) ==
    IF Late(tree) \/ ~l.in_order THEN [in_order |-> FALSE, steps |-> <<>>]
    ELSE [l EXCEPT !.steps = Append(@, [ops |-> Flatten(tree),
                                        qubits |-> qubits,
                                        control_qubit |-> control])]

Orderings(n) == {[i \in 1..n |-> i], [i \in 1..n |-> (i % n) + 1]}

Init ==
    /\ hamiltonian \in Hamiltonians
    /\ qubits0 \in Orderings(hamiltonian.n)
    /\ time \in {1, 2}
    /\ control0 \in {None, 0}
    /\ n_steps = 0
    /\ omit_final_swaps = FALSE
    /\ variant = "ctrl"
    /\ pc = "factory"
    /\ trotter = [v \in Variants |-> NoStep]
    /\ qubits = qubits0
    /\ control = control0
    /\ steps_done = 0
    /\ gen = NoFrame
    /\ tree = <<>>
    /\ register = FreshRegister
    /\ log = [v \in Variants |-> NoLog]
    /\ angle_call = NoCall

Built(step) ==
    /\ trotter' = [trotter EXCEPT ![variant] = step]
    /\ pc' = IF step.result = "step" THEN "call" ELSE "failed"
    /\ UNCHANGED <<angle_call, inputs, run, variant, qubits, control, steps_done, gen, tree,
                   register, log>>

CallAsymmetric ==
    /\ pc = "factory"
    /\ variant = "asym"
    /\ Built(asymmetric(hamiltonian))

CallControlledAsymmetric ==
    /\ pc = "factory"
    /\ variant = "ctrl"
    /\ Built(controlled_asymmetric(hamiltonian))

CallTrotterStep ==
    /\ pc = "call"
    /\ steps_done < MaxSteps
    /\ gen' = TrotterStepFrame(qubits, time, control)
    /\ tree' = <<>>
    /\ pc' = "consume"
    /\ UNCHANGED <<angle_call, inputs, run, variant, trotter, qubits, control, steps_done,
                   register, log>>

Consumed(fn) ==
    /\ pc = "consume"
    /\ gen.fn = fn
    /\ gen.at = "done"
    /\ Pending(tree) = {}

Permuted(to) ==
    /\ qubits' = to[1]
    /\ control' = to[2]
    /\ steps_done' = steps_done + 1
    /\ log' = [log EXCEPT ![variant] = Logged(@)]
    /\ pc' = "call"
    /\ UNCHANGED <<angle_call, inputs, run, variant, trotter, gen, tree, register>>

CallAsymStepQubitPermutation ==
    /\ Consumed("trotter_step")
    /\ variant = "asym"
    /\ Permuted(AsymStepQubitPermutation(self, qubits, control))

CallCtrlStepQubitPermutation ==
    /\ Consumed("trotter_step")
    /\ variant = "ctrl"
    /\ Permuted(CtrlStepQubitPermutation(self, qubits, control))

\* The run ends after any number of steps: finish is told how many there
\* were, and either value of omit_final_swaps.
CallFinish ==
    /\ pc = "call"
    /\ \E omit \in BOOLEAN :
        /\ n_steps' = steps_done
        /\ omit_final_swaps' = omit
        /\ gen' = FinishFrame(qubits, steps_done, control, omit)
    /\ tree' = <<>>
    /\ pc' = "consume"
    /\ UNCHANGED <<angle_call, inputs, variant, trotter, qubits, control, steps_done,
                   register, log>>

RunOver == Consumed("finish") \/ pc = "failed"

NextVariant ==
    /\ RunOver
    /\ variant = "ctrl"
    /\ variant' = "asym"
    /\ pc' = "factory"
    /\ qubits' = qubits0
    /\ control' = control0
    /\ steps_done' = 0
    /\ n_steps' = 0
    /\ omit_final_swaps' = FALSE
    /\ gen' = NoFrame
    /\ tree' = <<>>
    /\ register' = FreshRegister
    /\ UNCHANGED <<angle_call, inputs, trotter, log>>

End ==
    /\ RunOver
    /\ variant = "asym"
    /\ pc' = "end"
    /\ UNCHANGED <<angle_call, inputs, run, variant, trotter, qubits, control, steps_done, gen,
                   tree, register, log>>

Next ==
    \/ CallAsymmetric
    \/ CallControlledAsymmetric
    \/ CallTrotterStep
    \/ AsymYieldOneBodySwap
    \/ AsymYieldOneBodyDiag
    \/ AsymYieldBasisChange
    \/ AsymYieldTwoBodySwap
    \/ AsymYieldTwoBodyDiag
    \/ AsymYieldUndo
    \/ AsymStop
    \/ CtrlYieldOneBodySwap
    \/ CtrlYieldOneBodyDiag
    \/ CtrlYieldBasisChange
    \/ CtrlYieldTwoBodySwap
    \/ CtrlYieldTwoBodyDiag
    \/ CtrlYieldUndo
    \/ CtrlYieldPhase
    \/ CtrlStop
    \/ ExpandOneBodyDiag
    \/ ExpandTwoBodyDiag
    \/ CallAsymStepQubitPermutation
    \/ CallCtrlStepQubitPermutation
    \/ CallFinish
    \/ AsymFinishYieldFermionicSwap
    \/ AsymFinishYieldSwap
    \/ AsymFinishStop
    \/ CtrlFinishYieldFermionicSwap
    \/ CtrlFinishYieldSwap
    \/ CtrlFinishStop
    \/ NextVariant
    \/ End

Spec == Init /\ [][Next]_vars

\* The calls of chosen_angle_to_half_turns, with no Trotter step under way.
InitAngle ==
    /\ hamiltonian = CHOOSE h \in Hamiltonians : TRUE
    /\ qubits0 = [i \in 1..hamiltonian.n |-> i]
    /\ time = 1
    /\ control0 = None
    /\ n_steps = 0
    /\ omit_final_swaps = FALSE
    /\ variant = "ctrl"
    /\ pc = "end"
    /\ trotter = [v \in Variants |-> NoStep]
    /\ qubits = qubits0
    /\ control = control0
    /\ steps_done = 0
    /\ gen = NoFrame
    /\ tree = <<>>
    /\ register = FreshRegister
    /\ log = [v \in Variants |-> NoLog]
    /\ angle_call \in [half_turns : Arguments, rads : Arguments, degs : Arguments,
                  duration : Arguments, default : Arguments, called : {FALSE},
                  result : {NotCalled}]

NextAngle == CallChosenAngleToHalfTurns

SpecAngle == InitAngle /\ [][NextAngle]_vars

-----------------------------------------------------------------------------
\* Properties.

J == Len(self.eigenvalues)

FinishDone == pc = "consume" /\ gen.fn = "finish" /\ gen.at = "done"

StepDone(v) ==
    pc = "consume" /\ variant = v /\ gen.fn = "trotter_step" /\ gen.at = "done"

\* A swap network with no operation: swap gates only, of the given kind.
PurePass(item, fermionic) ==
    /\ item.kind = "swap_network"
    /\ item.fermionic = fermionic
    /\ \A i \in 1..Len(item.ops) :
          item.ops[i].gate = (IF fermionic THEN "FSWAP" ELSE "SWAP")

RECURSIVE ReverseTimes(_, _)
ReverseTimes(s, k) == IF k = 0 THEN s ELSE ReverseTimes(Reverse(s), k - 1)

\* C1 as stated: finish of either step, called with omit_final_swaps false and
\* n_steps odd, emits one fermionic swap-network pass and then one more,
\* non-fermionic pass if and only if J is even.
C1_SecondPassIffJEven ==
    (FinishDone /\ ~omit_final_swaps /\ n_steps % 2 = 1) =>
        /\ Len(tree) = (IF J % 2 = 0 THEN 2 ELSE 1)
        /\ PurePass(tree[1], TRUE)
        /\ Len(tree) = 2 => PurePass(tree[2], FALSE)

\* C1 amended: finish of either step, called with omit_final_swaps false and
\* n_steps odd, emits one fermionic swap-network pass and then one more,
\* non-fermionic pass if and only if J is odd.
C1_SecondPassIffJOdd ==
    (FinishDone /\ ~omit_final_swaps /\ n_steps % 2 = 1) =>
        /\ Len(tree) = (IF J % 2 = 1 THEN 2 ELSE 1)
        /\ PurePass(tree[1], TRUE)
        /\ Len(tree) = 2 => PurePass(tree[2], FALSE)

C1_Witness ==
    /\ FinishDone /\ ~omit_final_swaps /\ n_steps = 1
    /\ J = 1
    /\ Len(tree) = 2
    /\ Len(tree[1].ops) > 0

\* C2: whenever the driver replaces its ordering by what
\* step_qubit_permutation returns, of either step and for every J from 0 on,
\* the new ordering is the old one when J is odd and the old one reversed
\* when J is even.
C2_PermutationByParity ==
    [][steps_done' = steps_done + 1 =>
          qubits' = (IF J % 2 = 1 THEN qubits ELSE Reverse(qubits))]_vars

C2_Witness ==
    /\ pc = "call" /\ steps_done = 1
    /\ J = 0
    /\ qubits = Reverse(qubits0)
    /\ qubits # qubits0

\* The basis transformation a step emits last.
UndoItem == IF variant = "asym" THEN tree[Len(tree)] ELSE tree[Len(tree) - 1]

SwapNetworks(t) == {i \in 1..Len(t) : t[i].kind = "swap_network"}

StepPermutation ==
    IF variant = "asym" THEN AsymStepQubitPermutation(self, qubits, control)
    ELSE CtrlStepQubitPermutation(self, qubits, control)

\* C3: when trotter_step of either step has run to its end, the ordering
\* step_qubit_permutation returns for the ordering the step was given is the
\* ordering the step holds and gave to its final basis transformation, which
\* is the given ordering reversed 1 + J times, once for each of the 1 + J
\* swap networks the step emitted.
C3_PermutationIsFinalOrdering ==
    (pc = "consume" /\ gen.fn = "trotter_step" /\ gen.at = "done") =>
        /\ StepPermutation[1] = gen.qubits
        /\ UndoItem.kind = "bogoliubov"
        /\ UndoItem.ops[1].on = gen.qubits
        /\ gen.qubits = ReverseTimes(qubits, 1 + J)
        /\ Cardinality(SwapNetworks(tree)) = 1 + J

C3_Witness ==
    /\ StepDone("ctrl")
    /\ J = 2
    /\ Len(qubits) = 3
    /\ gen.qubits = Reverse(qubits)

Restored ==
    /\ register.mapping = [x \in Range(qubits0) |-> x]
    /\ register.passes % 2 = 0
    /\ register.fermionic % 2 = 0

\* C4: after any number of Trotter steps of either step, the driver taking
\* its ordering from step_qubit_permutation after each, and finish with
\* omit_final_swaps false, every qubit of the register holds the mode it
\* held at the start, and the numbers of swap-network passes and of fermionic
\* passes emitted are even.
C4_RoundTrip ==
    (FinishDone /\ ~omit_final_swaps) => Restored

C4_Witness ==
    /\ FinishDone /\ ~omit_final_swaps
    /\ n_steps = 1
    /\ J = 2
    /\ Len(qubits0) = 3
    /\ register.passes = 4
    /\ Restored

\* C5: finish of either step emits nothing when n_steps is even or
\* omit_final_swaps is true.
C5_NoCleanup ==
    (FinishDone /\ (n_steps % 2 = 0 \/ omit_final_swaps)) => tree = <<>>

C5_Witness ==
    /\ FinishDone
    /\ omit_final_swaps
    /\ n_steps = 1
    /\ tree = <<>>

N == Len(qubits)

Diagonal(item, kind, j, p) ==
    /\ item.kind = "op"
    /\ Len(item.ops) = 1
    /\ item.ops[1].gate = "RotZ"
    /\ item.ops[1].src = [kind |-> kind, j |-> j, p |-> p, q |-> p]

BasisChange(item, left, right) ==
    /\ item.kind = "bogoliubov"
    /\ Len(item.ops) = 1
    /\ item.ops[1].matrix = <<left, right>>

Basis(j) == IF j = 0 THEN Identity ELSE self.basis_change_matrices[j]

\* C6: one call of the asymmetric trotter_step on N qubits and J terms has
\* emitted, when it ends, exactly 1 + N + J * (N + 2) + 1 items: a fermionic
\* swap network, N one-body Z rotations, for each term in order a basis
\* transformation, a non-fermionic swap network and N two-body Z rotations,
\* and last the basis transformation that undoes the last basis change.
C6_AsymmetricStepShape ==
    StepDone("asym") =>
        /\ Len(tree) = 1 + N + J * (N + 2) + 1
        /\ tree[1].kind = "swap_network" /\ tree[1].fermionic
        /\ \A p \in 1..N : Diagonal(tree[1 + p], "one_body", 0, p)
        /\ \A j \in 1..J :
            LET b == 1 + N + (j - 1) * (N + 2)
            IN  /\ BasisChange(tree[b + 1], Basis(j - 1), Basis(j))
                /\ tree[b + 2].kind = "swap_network" /\ ~tree[b + 2].fermionic
                /\ \A p \in 1..N : Diagonal(tree[b + 2 + p], "two_body", j, p)
        /\ BasisChange(tree[Len(tree)], Basis(J), Identity)

C6_Witness ==
    /\ StepDone("asym")
    /\ N = 2
    /\ J = 1
    /\ time = 1
    /\ Len(tree) = 8

FromConstant(t) ==
    {i \in 1..Len(t) : \E k \in 1..Len(t[i].ops) : t[i].ops[k].src.kind = "constant"}

\* C7: every call of the controlled trotter_step, for every J from 0 on, emits
\* exactly one operation that depends on the constant term: a Z rotation by
\* -constant * time on the control qubit, emitted last, right after the final
\* basis transformation. The asymmetric step emits no such operation.
C7_ConstantPhase ==
    /\ StepDone("ctrl") =>
        /\ FromConstant(tree) = {Len(tree)}
        /\ tree[Len(tree)].ops =
              <<Gate("RotZ", "rads", -hamiltonian.constant * time, <<control0>>,
                     [kind |-> "constant", j |-> 0, p |-> 0, q |-> 0])>>
        /\ BasisChange(tree[Len(tree) - 1], Basis(J), Identity)
    /\ (variant = "ctrl" /\ gen.fn = "trotter_step" /\ gen.at \notin {"phase", "done"}) =>
          FromConstant(tree) = {}
    /\ variant = "asym" => FromConstant(tree) = {}

C7_Witness ==
    /\ StepDone("ctrl")
    /\ J = 0
    /\ control0 # None
    /\ time = 2
    /\ Len(tree) = 4
    /\ tree[4].ops[1].angle = -6

Counterpart(gate) ==
    CASE gate = "RotZ" -> "Rot11"
      [] gate = "XXYY" -> "ControlledXXYY"
      [] gate = "Rot11" -> "Rot111"
      [] OTHER -> gate

\* Operation c of the controlled step stands for operation a of the
\* asymmetric step.
Corresponds(a, c, control_qubit) ==
    IF a.gate \in {"RotZ", "XXYY", "Rot11"}
    THEN c = [a EXCEPT !.gate = Counterpart(a.gate), !.on = <<control_qubit>> \o a.on]
    ELSE c = a

Called(v) == trotter[v].result # "unbuilt"

Supported(h) == h.type = "InteractionOperator"

\* C9 as stated: each factory returns a step object for a Hamiltonian of the
\* supported type (whose decomposition succeeds), and returns the sentinel
\* for 'not applicable', raising nothing, for a Hamiltonian of another type.
C9_SentinelWhenUnsupported ==
    \A v \in Variants :
        Called(v) =>
            /\ (Supported(hamiltonian) /\ hamiltonian.decomposes) =>
                  trotter[v].result = "step"
            /\ ~Supported(hamiltonian) => trotter[v].result = "None"

\* C9 amended: each factory returns a step object for a Hamiltonian of the
\* supported type whose decomposition succeeds. Neither checks the type and
\* neither ever returns a sentinel: handed a Hamiltonian of another type, the
\* construction is attempted all the same and raises, the object lacking the
\* tensors the constructor reads.
C9_NoSentinel ==
    \A v \in Variants :
        Called(v) =>
            /\ trotter[v].result \in {"step", "raised"}
            /\ trotter[v].result = "step" <=>
                  (hamiltonian.has_tensors /\ hamiltonian.decomposes)
            /\ trotter[v].result = "step" =>
                  /\ trotter[v].constant = hamiltonian.constant
                  /\ Len(trotter[v].eigenvalues) = hamiltonian.rank

C9_Witness ==
    /\ Called("asym") /\ Called("ctrl")
    /\ ~Supported(hamiltonian)
    /\ ~hamiltonian.has_tensors
    /\ trotter["asym"].result = "raised"
    /\ trotter["ctrl"].result = "raised"

\* C10: a controlled trotter_step that was called without a control qubit
\* hands the consumer no gate operation.
C10_NoGateWithoutControl ==
    (variant = "ctrl" /\ gen.fn = "trotter_step" /\ gen.control_qubit = None) =>
        Flatten(tree) = <<>>

\* C11: a call of chosen_angle_to_half_turns in which two or more of
\* half_turns, rads, degs and duration are given, a value of 0 included,
\* raises ValueError; a call in which none of them is given returns the
\* default, which is 1 unless the call gives another.
AnglesGiven ==
    {a \in {"half_turns", "rads", "degs", "duration"} : angle_call[a].given}

C11_RedundantRaisesNoneGivesDefault ==
    angle_call.called =>
        /\ Cardinality(AnglesGiven) >= 2 => angle_call.result.raised
        /\ AnglesGiven = {} =>
               /\ ~angle_call.result.raised
               /\ angle_call.result.value =
                      Number(IF angle_call.default.given
                             THEN angle_call.default.value ELSE 1, 1, 0)

C11_Witness ==
    /\ angle_call.called
    /\ angle_call.result.raised
    /\ AnglesGiven = {"rads", "duration"}
    /\ angle_call.rads.value = 0
    /\ angle_call.duration.value = 0

\* The input ordering reversed once for each of k swap-network passes:
\* position p holds the qubit of input position N + 1 - p for k odd, of
\* input position p for k even (positions from 1).
Working(k) ==
    [p \in 1..N |-> IF k % 2 = 1 THEN qubits[N + 1 - p] ELSE qubits[p]]

PassesBefore(i) == Cardinality({k \in SwapNetworks(tree) : k < i})

Swaps(item) == SelectSeq(item.ops, LAMBDA o : o.gate \in {"SWAP", "FSWAP"})

\* The rotations by a diagonal coefficient (index p = q) among an item's
\* operations act, last of their qubits, on position p of the ordering qs.
DiagonalOn(item, qs) ==
    \A k \in 1..Len(item.ops) :
        LET o == item.ops[k]
        IN  (o.src.kind \in {"one_body", "two_body"} /\ o.src.p = o.src.q) =>
                o.on[Len(o.on)] = qs[o.src.p]

\* The item was emitted for the ordering qs: a swap network swaps the
\* neighbours of qs layer by layer, a basis transformation acts on qs.
EmittedFor(item, qs) ==
    CASE item.kind = "swap_network" ->
             Swaps(item) = swap_network(self, qs, NoOperation, item.fermionic).ops
      [] item.kind = "bogoliubov" -> item.ops[1].on = qs
      [] OTHER -> DiagonalOn(item, qs)

\* C12: whatever trotter_step of either step has emitted so far was emitted
\* for the input ordering reversed once for each swap-network pass emitted
\* before it: each pass and each basis transformation was given that
\* ordering, and each diagonal rotation with coefficient index p acts on the
\* qubit at its position p; and the caller's sequence is still the one the
\* caller passed, its first ordering reversed 1 + J times by each earlier
\* step's permutation. The controlled step is looked at when it was given a
\* control qubit.
C12_EmittedForWorkingOrdering ==
    (/\ pc = "consume"
     /\ gen.fn = "trotter_step"
     /\ variant = "ctrl" => gen.control_qubit # None) =>
        /\ \A i \in 1..Len(tree) : EmittedFor(tree[i], Working(PassesBefore(i)))
        /\ qubits = ReverseTimes(qubits0, steps_done * (1 + J))

\* The frame as it was when item i of the tree was emitted: the ordering is
\* the input ordering reversed once for each pass emitted before it, the
\* coefficient matrix that of the term whose basis change was the last before it.
TermsBefore(i) == Cardinality({k \in 1..(i - 1) : tree[k].kind = "bogoliubov"})

AtEmission(i) ==
    [gen EXCEPT !.qubits = Working(PassesBefore(i)),
                !.two_body_coefficients = TermsBefore(i)]

\* C13: every inner sequence of diagonal rotations the controlled
\* trotter_step has emitted and the consumer has expanded, whether before
\* its next pull or after later pulls, holds the rotations for the qubit
\* ordering and the coefficient matrix that were current when it was emitted.
\* The step is looked at when it was given a control qubit.
C13_GroupsBoundAtEmission ==
    (/\ pc = "consume"
     /\ variant = "ctrl"
     /\ gen.fn = "trotter_step"
     /\ gen.control_qubit # None) =>
        \A i \in 1..Len(tree) :
            (tree[i].kind = "genexp" /\ tree[i].expanded) =>
                tree[i].ops = (IF tree[i].site = "one_body"
                               THEN CtrlOneBodyDiag(AtEmission(i))
                               ELSE CtrlTwoBodyDiag(AtEmission(i)))

====
